---- MODULE Spec2Model ----
(***************************************************************************)
(* Model of src/index.py: the dataset loader/normaliser load_data, the     *)
(* filter engine filter_data and the CSV export convert_df_to_csv of the   *)
(* Spotify dashboard.                                                       *)
(*                                                                         *)
(* Text is modelled character by character: a string is a sequence of      *)
(* code points (integers), a file cell is a sequence of bytes.  A table is *)
(* [cols |-> set of column names, rows |-> sequence of rows], a row being  *)
(* a function from the column names to cells.  A cell of a DataFrame is a  *)
(* tagged record: Null (NaN/NaT/None), Str, Num, Bool or Date.             *)
(***************************************************************************)
EXTENDS Integers, Sequences, FiniteSets, TLC

VARIABLES
  file,       \* content of 'msss2024.csv' on disk (or missing)
  cache,      \* the st.cache_data entry of load_data (it takes no argument)
  df,         \* what the last load_data() call gave main()
  last_load,  \* what that call did: "none", "miss" (body ran), "hit", "error"
  criteria,   \* arguments of the last filter_data call
  filtered,   \* what the last filter_data call gave main()
  csv_data    \* bytes produced by convert_df_to_csv(filtered_df)

vars == <<file, cache, df, last_load, criteria, filtered, csv_data>>

(***************************************************************************)
(* Bounds of the model.                                                    *)
(***************************************************************************)
MaxRows == 2   \* rows of a source table
MaxLen == 3    \* characters of a raw numeric cell
MaxQuery == 2  \* characters of an ISRC query

(***************************************************************************)
(* Characters.                                                             *)
(***************************************************************************)
UpperLetters ==
  <<"A","B","C","D","E","F","G","H","I","J","K","L","M",
    "N","O","P","Q","R","S","T","U","V","W","X","Y","Z">>

LowerLetters ==
  <<"a","b","c","d","e","f","g","h","i","j","k","l","m",
    "n","o","p","q","r","s","t","u","v","w","x","y","z">>

DigitChars == <<"0","1","2","3","4","5","6","7","8","9">>

\* Code point of a character.  The three non-ASCII letters are named.
ord(c) ==
  IF \E i \in 1..26 : UpperLetters[i] = c
    THEN 64 + (CHOOSE i \in 1..26 : UpperLetters[i] = c)
  ELSE IF \E i \in 1..26 : LowerLetters[i] = c
    THEN 96 + (CHOOSE i \in 1..26 : LowerLetters[i] = c)
  ELSE IF \E i \in 1..10 : DigitChars[i] = c
    THEN 47 + (CHOOSE i \in 1..10 : DigitChars[i] = c)
  ELSE CASE c = " " -> 32
         [] c = "(" -> 40
         [] c = "+" -> 43
         [] c = "," -> 44
         [] c = "-" -> 45
         [] c = "." -> 46
         [] c = "/" -> 47
         [] c = "[" -> 91
         [] c = "newline" -> 10
         [] c = "A_tilde" -> 195   \* U+00C3
         [] c = "a_tilde" -> 227   \* U+00E3
         [] c = "e_acute" -> 233   \* U+00E9

\* A string literal, written as the tuple of its characters.
Text(chars) == [i \in 1..Len(chars) |-> ord(chars[i])]

IsDigit(cp) == cp \in 48..57

RECURSIVE Filter(_, _)
\* The characters of s that are in the set keep, in order.
Filter(s, keep) ==
  IF s = <<>> THEN <<>>
  ELSE IF Head(s) \in keep THEN <<Head(s)>> \o Filter(Tail(s), keep)
       ELSE Filter(Tail(s), keep)

\* All sequences over alphabet of length at most n.
RECURSIVE SeqsUpTo(_, _)
SeqsUpTo(alphabet, n) ==
  IF n = 0 THEN {<<>>}
  ELSE LET shorter == SeqsUpTo(alphabet, n - 1)
       IN  shorter \cup {Append(s, a) : s \in shorter, a \in alphabet}

(***************************************************************************)
(* DataFrame cells.                                                        *)
(***************************************************************************)
Null == [kind |-> "null"]
Str(s) == [kind |-> "str", s |-> s]
Bool(b) == [kind |-> "bool", b |-> b]
Date(d) == [kind |-> "date", day |-> d]
\* The number (-1)^neg * mant / 10^scale, in lowest decimal form.
Num(neg, mant, scale) == [kind |-> "num", neg |-> neg, mant |-> mant, scale |-> scale]
Zero == Num(FALSE, 0, 0)

\* Series.astype(str): NaN becomes the text 'nan', text stays.
astype_str(cell) ==
  IF cell.kind = "null" THEN Text(<<"n","a","n">>) ELSE cell.s

(***************************************************************************)
(* pd.read_csv(..., encoding='latin1')                                     *)
(***************************************************************************)
\* latin1: every byte b is the code point b.
latin1_decode(bytes) == [i \in 1..Len(bytes) |-> bytes[i]]

\* An empty field is read as NaN; any other field is kept as its text (the
\* model's fields are not among the other texts pandas reads as NaN).
read_cell(bytes) == IF bytes = <<>> THEN Null ELSE Str(latin1_decode(bytes))

read_csv(f) ==
  [cols |-> f.cols,
   rows |-> [i \in 1..Len(f.rows) |-> [c \in f.cols |-> read_cell(f.rows[i][c])]]]

(***************************************************************************)
(* Numeric columns (lines 14-28).                                          *)
(***************************************************************************)
numeric_columns ==
  {"All Time Rank", "Track Score", "Spotify Streams", "Spotify Playlist Count",
   "Spotify Playlist Reach", "Spotify Popularity", "YouTube Views", "YouTube Likes",
   "TikTok Posts", "TikTok Likes", "TikTok Views", "YouTube Playlist Reach",
   "Apple Music Playlist Count", "AirPlay Spins", "SiriusXM Spins",
   "Deezer Playlist Count", "Deezer Playlist Reach", "Amazon Playlist Count",
   "Pandora Streams", "Pandora Track Stations", "Soundcloud Streams",
   "Shazam Counts", "TIDAL Popularity"}

\* .str.replace(r'[^\d.]', '', regex=True) with every character kept.
strip_non_numeric_keep_all(s) == s

\* .str.replace(r'[^\d.]', '', regex=True): only digits and '.' are kept.
strip_non_numeric(s) == Filter(s, (48..57) \cup {ord(".")})

RECURSIVE DigitsValue(_)
DigitsValue(s) ==
  IF s = <<>> THEN 0
  ELSE 10 * DigitsValue(SubSeq(s, 1, Len(s) - 1)) + (s[Len(s)] - 48)

RECURSIVE Canonical(_, _, _)
\* Drops the trailing zeros of the fraction; zero is unsigned.
Canonical(neg, mant, scale) ==
  IF mant = 0 THEN Zero
  ELSE IF scale > 0 /\ mant % 10 = 0 THEN Canonical(neg, mant \div 10, scale - 1)
  ELSE Num(neg, mant, scale)

\* pd.to_numeric(..., errors='coerce') of one text: an optional sign, digits
\* with at most one '.', at least one digit; anything else is NaN.
to_numeric(s) ==
  LET signed == s # <<>> /\ Head(s) \in {ord("-"), ord("+")}
      body == IF signed THEN Tail(s) ELSE s
      dots == {i \in 1..Len(body) : body[i] = ord(".")}
      digits == Filter(body, 48..57)
  IN  IF \/ \E i \in 1..Len(body) : ~IsDigit(body[i]) /\ body[i] # ord(".")
         \/ Cardinality(dots) > 1
         \/ digits = <<>>
      THEN Null
      ELSE LET scale == IF dots = {} THEN 0
                        ELSE Len(body) - (CHOOSE i \in dots : TRUE)
           IN  Canonical(signed /\ Head(s) = ord("-"), DigitsValue(digits), scale)

\* .fillna(0) that fills nothing.
fillna_zero_skipped(v) == v

\* .fillna(0)
fillna_zero(v) == IF v.kind = "null" THEN Zero ELSE v

\* Line 28, for one cell.
normalize_numeric(cell) ==
  fillna_zero(to_numeric(strip_non_numeric(astype_str(cell))))

(***************************************************************************)
(* 'Release Date' (lines 31-32).  The model knows the dates of March 2024, *)
(* written as in the dataset ('3/D/2024') or as to_csv writes them         *)
(* ('2024-03-DD'); a date is the number of its day, a midnight Timestamp.  *)
(***************************************************************************)
TwoDigits(n) == <<48 + (n \div 10), 48 + (n % 10)>>

iso_date(d) == Text(<<"2","0","2","4","-","0","3","-">>) \o TwoDigits(d)

us_date(d) ==
  Text(<<"3","/">>) \o (IF d < 10 THEN <<48 + d>> ELSE TwoDigits(d))
                    \o Text(<<"/","2","0","2","4">>)

\* pd.to_datetime(..., errors='coerce') of one cell: NaT when unparsable.
to_datetime(cell) ==
  IF cell.kind = "null" THEN Null
  ELSE IF \E d \in 1..31 : cell.s \in {iso_date(d), us_date(d)}
    THEN Date(CHOOSE d \in 1..31 : cell.s \in {iso_date(d), us_date(d)})
  ELSE Null

(***************************************************************************)
(* 'Explicit Track' (lines 35-38).                                         *)
(***************************************************************************)
\* str.lower() of one code point below 256.
lower_cp(cp) ==
  IF cp \in 65..90 \/ cp \in 192..214 \/ cp \in 216..222 THEN cp + 32 ELSE cp

\* str.lower() that changes nothing.
str_lower_identity(s) == s

str_lower(s) == [i \in 1..Len(s) |-> lower_cp(s[i])]

explicit_true == {Text(<<"y","e","s">>), Text(<<"s","i","m">>), Text(<<"t","r","u","e">>)}

explicit_false ==
  {Text(<<"n","o">>), Text(<<"n","a_tilde","o">>), Text(<<"f","a","l","s","e">>)}

\* .map({...}): a key of the dict gives its value, any other text NaN.
explicit_map(s) ==
  IF s \in explicit_true THEN Bool(TRUE)
  ELSE IF s \in explicit_false THEN Bool(FALSE)
  ELSE Null

\* .fillna(False)
fillna_false(v) == IF v.kind = "null" THEN Bool(FALSE) ELSE v

normalize_explicit(cell) == fillna_false(explicit_map(str_lower(astype_str(cell))))

(***************************************************************************)
(* load_data (lines 10-40), for a source that can be read.                 *)
(***************************************************************************)
normalize_cell(c, cell) ==
  IF c \in numeric_columns THEN normalize_numeric(cell)
  ELSE IF c = "Release Date" THEN to_datetime(cell)
  ELSE IF c = "Explicit Track" THEN normalize_explicit(cell)
  ELSE cell

\* A loader that drops the rows it had to repair.
normalize_rows_dropping(t) ==
  LET all == [i \in 1..Len(t.rows) |-> [c \in t.cols |-> normalize_cell(c, t.rows[i][c])]]
      keep == {i \in 1..Len(all) :
                 \A c \in t.cols : t.rows[i][c].kind = "null" <=> all[i][c].kind = "null"}
      RECURSIVE Pick(_)
      Pick(i) == IF i > Len(all) THEN <<>>
                 ELSE IF i \in keep THEN <<all[i]>> \o Pick(i + 1) ELSE Pick(i + 1)
  IN  Pick(1)

\* Each conversion rewrites one column in place: every row stays.
normalize_rows(t) ==
  [i \in 1..Len(t.rows) |-> [c \in t.cols |-> normalize_cell(c, t.rows[i][c])]]

load_data(f) ==
  LET t == read_csv(f) IN [cols |-> t.cols, rows |-> normalize_rows(t)]

(***************************************************************************)
(* Results of a call: a value, or the exception that ended it.             *)
(***************************************************************************)
NotCalled == [status |-> "none"]
Ok(v) == [status |-> "ok", value |-> v]
Raised(exc) == [status |-> "error", exc |-> exc]

None == [kind |-> "none"]

(***************************************************************************)
(* filter_data (lines 44-57).                                              *)
(***************************************************************************)
RECURSIVE SelectRows(_, _)
\* rows[keep], for a boolean mask given as the set of kept positions.
SelectRows(rows, keep) ==
  IF rows = <<>> THEN <<>>
  ELSE LET rest == SelectRows(Tail(rows), {i - 1 : i \in keep \ {1}})
       IN  IF 1 \in keep THEN <<Head(rows)>> \o rest ELSE rest

\* Series.notna() in the place of Series.isin(values).
isin_not_null(cell, values) == cell.kind = "str"

\* Series.isin(values): NaN is in no list of names.
isin(cell, values) == cell.kind = "str" /\ cell.s \in values

\* `if start_date and end_date`: a datetime.date is truthy, None is not.
date_range_active(start_date, end_date) ==
  start_date.kind = "date" /\ end_date.kind = "date"

\* The comparison of lines 52-53 with the upper end left out.
in_date_range_exclusive(cell, start_date, end_date) ==
  cell.kind = "date" /\ cell.day >= start_date.day /\ cell.day < end_date.day

\* Lines 52-53: both comparisons are False for NaT.
in_date_range(cell, start_date, end_date) ==
  cell.kind = "date" /\ cell.day >= start_date.day /\ cell.day <= end_date.day

\* re.compile(pat) fails on an unterminated group or character set.  The
\* model's patterns hold letters, digits, '.', '(' and '[' only, so every
\* '(' and every '[' is unterminated.
regex_error(pat) == \E i \in 1..Len(pat) : pat[i] \in {ord("("), ord("[")}

\* regex.search(text) for such a pattern without '(' and '[': '.' matches
\* any character but a newline, every other character matches itself.
regex_search(pat, text) ==
  \E k \in 0..(Len(text) - Len(pat)) :
    \A i \in 1..Len(pat) :
      IF pat[i] = ord(".") THEN text[k + i] # ord("newline")
      ELSE text[k + i] = pat[i]

\* A column read from fields that are all empty or all numbers is float64
\* or int64, not object (it has no .str accessor); a column of no rows is
\* object.
is_object_column(t, c) ==
  \/ t.rows = <<>>
  \/ \E i \in 1..Len(t.rows) :
       t.rows[i][c].kind = "str" /\ to_numeric(t.rows[i][c].s).kind = "null"

\* `if artists:` that selects on an empty list too.
artists_active_always(artists) == TRUE

\* `if artists:`: an empty list is falsy.
artists_active(artists) == artists # {}

filter_data(t, artists, tracks, start_date, end_date, isrc) ==
  LET by_artist ==
        IF ~artists_active(artists) THEN t.rows
        ELSE SelectRows(t.rows,
               {i \in 1..Len(t.rows) : isin(t.rows[i]["Artist"], artists)})
      by_track ==
        IF tracks = {} THEN by_artist
        ELSE SelectRows(by_artist,
               {i \in 1..Len(by_artist) : isin(by_artist[i]["Track"], tracks)})
      by_date ==
        IF ~date_range_active(start_date, end_date) THEN by_track
        ELSE SelectRows(by_track,
               {i \in 1..Len(by_track) :
                  in_date_range(by_track[i]["Release Date"], start_date, end_date)})
      isrc_active == isrc.kind = "str" /\ isrc.s # <<>>
      by_isrc ==
        IF ~isrc_active THEN by_date
        ELSE SelectRows(by_date,
               {i \in 1..Len(by_date) :
                  /\ by_date[i]["ISRC"].kind = "str"
                  /\ regex_search(isrc.s, by_date[i]["ISRC"].s)})
  IN  IF artists_active(artists) /\ "Artist" \notin t.cols THEN Raised("KeyError")
      ELSE IF tracks # {} /\ "Track" \notin t.cols THEN Raised("KeyError")
      ELSE IF date_range_active(start_date, end_date) /\ "Release Date" \notin t.cols
        THEN Raised("KeyError")
      ELSE IF isrc_active /\ "ISRC" \notin t.cols THEN Raised("KeyError")
      ELSE IF isrc_active /\ ~is_object_column(t, "ISRC") THEN Raised("AttributeError")
      ELSE IF isrc_active /\ regex_error(isrc.s) THEN Raised("re.error")
      ELSE Ok([cols |-> t.cols, rows |-> by_isrc])

(***************************************************************************)
(* convert_df_to_csv (lines 291-292): df.to_csv(index=False).encode('utf-8')*)
(***************************************************************************)
RECURSIVE IntDigits(_)
IntDigits(n) == IF n < 10 THEN <<48 + n>> ELSE IntDigits(n \div 10) \o <<48 + (n % 10)>>

RECURSIVE ZeroPad(_, _)
ZeroPad(s, width) == IF Len(s) >= width THEN s ELSE ZeroPad(<<48>> \o s, width)

\* repr of a float64: at least one digit on each side of the point.
float_repr(n) ==
  LET digits == ZeroPad(IntDigits(n.mant), n.scale + 1)
      whole == SubSeq(digits, 1, Len(digits) - n.scale)
      frac == IF n.scale = 0 THEN <<48>>
              ELSE SubSeq(digits, Len(digits) - n.scale + 1, Len(digits))
  IN  (IF n.neg THEN <<ord("-")>> ELSE <<>>) \o whole \o <<ord(".")>> \o frac

\* The text to_csv writes for one cell; NaN and NaT are an empty field.
cell_text(cell) ==
  CASE cell.kind = "null" -> <<>>
    [] cell.kind = "str" -> cell.s
    [] cell.kind = "num" -> float_repr(cell)
    [] cell.kind = "bool" -> IF cell.b THEN Text(<<"T","r","u","e">>)
                                       ELSE Text(<<"F","a","l","s","e">>)
    [] cell.kind = "date" -> iso_date(cell.day)

RECURSIVE utf8_encode(_)
\* UTF-8 of code points below 2048: one byte below 128, two bytes from there.
utf8_encode(s) ==
  IF s = <<>> THEN <<>>
  ELSE (IF Head(s) < 128 THEN <<Head(s)>>
        ELSE <<192 + (Head(s) \div 64), 128 + (Head(s) % 64)>>)
       \o utf8_encode(Tail(s))

\* The bytes of the export, as the table of its fields under its header row.
convert_df_to_csv(t) ==
  [exists |-> TRUE,
   cols |-> t.cols,
   rows |-> [i \in 1..Len(t.rows) |->
              [c \in t.cols |-> utf8_encode(cell_text(t.rows[i][c]))]]]

(***************************************************************************)
(* The program: main() calls load_data (cached), filter_data and           *)
(* convert_df_to_csv in this order on every run of the script.             *)
(***************************************************************************)
Missing == [exists |-> FALSE, cols |-> {}, rows |-> <<>>]

SourceFile(cols, rows) == [exists |-> TRUE, cols |-> cols, rows |-> rows]

\* A cache keyed by nothing that is never hit.
cache_hit_never(entry) == FALSE

\* @st.cache_data on a function without arguments: one entry, found on
\* every call once it is stored; the file is not part of the key.
cache_hit(entry) == entry.status = "ok"

\* A new run of the script has not filtered or exported yet.
RunStarts ==
  /\ criteria' = NotCalled
  /\ filtered' = NotCalled
  /\ csv_data' = NotCalled

load_data_hit ==
  /\ cache_hit(cache)
  /\ df' = cache
  /\ last_load' = "hit"
  /\ RunStarts
  /\ UNCHANGED <<file, cache>>

load_data_miss ==
  /\ ~cache_hit(cache)
  /\ file.exists
  /\ df' = Ok(load_data(file))
  /\ cache' = Ok(load_data(file))
  /\ last_load' = "miss"
  /\ RunStarts
  /\ UNCHANGED file

\* pd.read_csv raises; st.cache_data stores nothing and the exception
\* reaches main().
load_data_error ==
  /\ ~cache_hit(cache)
  /\ ~file.exists
  /\ df' = Raised("FileNotFoundError")
  /\ last_load' = "error"
  /\ RunStarts
  /\ UNCHANGED <<file, cache>>

\* Line 71.
load_data_call == load_data_hit \/ load_data_miss \/ load_data_error

\* Line 104: once in a run, after load_data has returned.
filter_data_call(artists, tracks, start_date, end_date, isrc) ==
  /\ df.status = "ok"
  /\ filtered.status = "none"
  /\ criteria' = Ok([artists |-> artists, tracks |-> tracks,
                     start_date |-> start_date, end_date |-> end_date, isrc |-> isrc])
  /\ filtered' = filter_data(df.value, artists, tracks, start_date, end_date, isrc)
  /\ csv_data' = NotCalled
  /\ UNCHANGED <<file, cache, df, last_load>>

\* Line 294: once in a run, after filter_data has returned.
convert_df_to_csv_call ==
  /\ filtered.status = "ok"
  /\ csv_data.status = "none"
  /\ csv_data' = Ok(convert_df_to_csv(filtered.value))
  /\ UNCHANGED <<file, cache, df, last_load, criteria, filtered>>

\* The environment: the file is replaced, or deleted, between two runs.
ChangeFile(f) ==
  /\ f # file
  /\ file' = f
  /\ UNCHANGED <<cache, df, last_load, criteria, filtered, csv_data>>

InitWith(files) ==
  /\ file \in files
  /\ cache = NotCalled
  /\ df = NotCalled
  /\ last_load = "none"
  /\ criteria = NotCalled
  /\ filtered = NotCalled
  /\ csv_data = NotCalled

(***************************************************************************)
(* Source files.                                                           *)
(***************************************************************************)
\* The rows over cols whose cell in column c is one of Dom[c].
RowsOver(cols, Dom) ==
  {r \in [cols -> UNION {Dom[c] : c \in cols}] : \A c \in cols : r[c] \in Dom[c]}

\* The files over cols of at most n rows drawn from rows.
FilesOver(cols, rows, n) ==
  {SourceFile(cols, t) : t \in UNION {[1..k -> rows] : k \in 0..n}}

(***************************************************************************)
(* Loading: every raw numeric cell of at most MaxLen characters, every     *)
(* letter case of the tokens of 'Explicit Track', and tables of at most    *)
(* MaxRows rows with every subset of the optional columns.                 *)
(***************************************************************************)
NumericAlphabet == {ord("0"), ord("1"), ord("."), ord(","), ord("-"), ord("a")}

NumericRaw == SeqsUpTo(NumericAlphabet, MaxLen)

NumericFiles ==
  {SourceFile({"Spotify Streams"}, <<"Spotify Streams" :> s>>) : s \in NumericRaw}

upper_cp(cp) == IF cp \in 97..122 \/ cp \in 224..246 \/ cp \in 248..254 THEN cp - 32 ELSE cp

\* The token in every mix of upper and lower case.
Casings(token) ==
  {[i \in 1..Len(token) |-> IF i \in up THEN upper_cp(token[i]) ELSE token[i]] :
     up \in SUBSET (1..Len(token))}

ExplicitRaw ==
  UNION {Casings(token) : token \in explicit_true \cup explicit_false}
  \cup {<<>>, Text(<<"y">>), Text(<<"1">>), Text(<<"0">>), Text(<<"n","a","n">>),
        Text(<<"y","e","s","s">>), Text(<<" ","n","o">>), Text(<<"n","a","o">>)}

ExplicitFiles ==
  {SourceFile({"Explicit Track"}, <<"Explicit Track" :> s>>) : s \in ExplicitRaw}

OptionalColumns == {"Spotify Streams", "Release Date", "Explicit Track"}

LoadDomain ==
  [c \in {"Artist"} \cup OptionalColumns |->
     CASE c = "Artist" -> {Text(<<"X">>)}
       [] c = "Spotify Streams" -> {<<>>, Text(<<"1",",","0">>), Text(<<"a">>)}
       [] c = "Release Date" -> {us_date(1), Text(<<"x">>)}
       [] c = "Explicit Track" -> {Text(<<"S","i","m">>), <<>>}]

LoadFiles ==
  UNION {FilesOver({"Artist"} \cup opt, RowsOver({"Artist"} \cup opt, LoadDomain), MaxRows) :
           opt \in SUBSET OptionalColumns}

InitLoad == InitWith({Missing} \cup NumericFiles \cup ExplicitFiles \cup LoadFiles)

NextLoad == load_data_call

SpecLoad == InitLoad /\ [][NextLoad]_vars

\* The numeric cells of the loaded table, with the raw field each came from.
LoadedNumericCells ==
  IF df.status # "ok" \/ ~file.exists THEN {}
  ELSE {[raw |-> file.rows[i][c], cell |-> df.value.rows[i][c]] :
          i \in 1..Len(df.value.rows), c \in df.value.cols \cap numeric_columns}

\* C5: after load_data every cell of a declared numeric column that is
\* present holds a number >= 0: never null, never text.
C5_NumericNonNegative ==
  \A x \in LoadedNumericCells :
    x.cell.kind = "num" /\ ~x.cell.neg /\ x.cell.mant >= 0 /\ x.cell.scale >= 0

\* A raw cell with a sign has been loaded, and holds the number without it.
C5_Witness ==
  \E x \in LoadedNumericCells :
    x.raw = Text(<<"-","1">>) /\ x.cell = Num(FALSE, 1, 0)

\* A text that is a number as a person writes one: an optional sign, digits
\* with at most one decimal point, thousands separators allowed.
IsNumberText(s) == to_numeric(Filter(s, (0..255) \ {ord(",")})).kind = "num"

\* C6 as stated: an empty, null or non-numeric raw cell of a declared
\* numeric column is normalized to 0.
C6_NonNumericIsZero ==
  \A x \in LoadedNumericCells : ~IsNumberText(x.raw) => x.cell = Zero

CountOf(s, cp) == Cardinality({i \in 1..Len(s) : s[i] = cp})

\* C6 amended: a raw cell of a declared numeric column that is empty or null,
\* holds no decimal digit, or holds more than one '.', is normalized to 0.
C6_NoDigitsIsZero ==
  \A x \in LoadedNumericCells :
    (Filter(x.raw, 48..57) = <<>> \/ CountOf(x.raw, ord(".")) > 1) => x.cell = Zero

\* A raw cell made of a separator, a letter and a point has been loaded as 0.
C6_Witness ==
  \E x \in LoadedNumericCells : x.raw = Text(<<",","a",".">>) /\ x.cell = Zero

LoadedExplicitCells ==
  IF df.status # "ok" \/ ~file.exists \/ "Explicit Track" \notin df.value.cols THEN {}
  ELSE {[raw |-> file.rows[i]["Explicit Track"], cell |-> df.value.rows[i]["Explicit Track"]] :
          i \in 1..Len(df.value.rows)}

\* s is the lower-case token written in some mix of letter cases.
EqualsIgnoringCase(s, token) ==
  Len(s) = Len(token) /\ \A i \in 1..Len(s) : s[i] \in {token[i], upper_cp(token[i])}

\* C7: after load_data every 'Explicit Track' cell is exactly true or false:
\* true for 'yes', 'sim', 'true' in any letter case, false for every other
\* raw value, 'no', 'nao' with a tilde, 'false' and null among them.
C7_ExplicitIsBoolean ==
  \A x \in LoadedExplicitCells :
    /\ x.cell.kind = "bool"
    /\ x.cell.b <=> \E token \in explicit_true : EqualsIgnoringCase(x.raw, token)

\* 'SIM', in upper case, has been loaded as true.
C7_Witness ==
  \E x \in LoadedExplicitCells :
    x.raw = Text(<<"S","I","M">>) /\ x.cell = Bool(TRUE)

\* C10: load_data ends in an error only when the file is missing, and then
\* the caller gets the error and no table; a readable source, whatever its
\* cells and whichever optional columns it lacks, gives a table of as many
\* rows as the source.
C10_OnlyMissingFileFails ==
  last_load # "none" =>
    IF file.exists
      THEN df.status = "ok" /\ df.value.cols = file.cols
           /\ Len(df.value.rows) = Len(file.rows)
      ELSE df = Raised("FileNotFoundError")

\* A source without numeric and 'Explicit Track' columns, whose two dates
\* cannot be parsed, has been loaded.
C10_Witness ==
  /\ file.exists /\ file.cols = {"Artist", "Release Date"}
  /\ Len(file.rows) = MaxRows
  /\ \A i \in 1..Len(file.rows) : file.rows[i]["Release Date"] = Text(<<"x">>)
  /\ df.status = "ok" /\ Len(df.value.rows) = MaxRows

(***************************************************************************)
(* Caching: runs of the script interleaved with changes of the file.       *)
(***************************************************************************)
CacheFiles == {f \in LoadFiles : f.cols = {"Artist", "Spotify Streams"}}

InitCache == InitWith(CacheFiles)

NextCache ==
  \/ load_data_call
  \/ \E f \in CacheFiles \cup {Missing} : ChangeFile(f)

SpecCache == InitCache /\ [][NextCache]_vars

\* C9 as stated: a call made after the content has changed returns the
\* normalization of the current content, never a table cached for earlier
\* content.
C9_CallReturnsCurrentContent ==
  [][(load_data_call /\ file.exists) => df' = Ok(load_data(file))]_vars

\* C9 amended: the normalized table is constructed once, by the first call
\* that can read the file; from then on the cache entry never changes and
\* every call returns it without recomputation, whether or not the content of
\* the file has changed since (or the file is gone).
C9_ConstructedOnce ==
  [][cache.status = "ok" =>
       /\ cache' = cache
       /\ load_data_call => (df' = cache /\ last_load' = "hit")]_vars

\* A call has reused the cached table although the file now holds other rows.
C9_Witness ==
  /\ last_load = "hit"
  /\ df = cache
  /\ file.exists
  /\ df # Ok(load_data(file))

(***************************************************************************)
(* Filtering and export: tables of at most MaxRows rows with the four      *)
(* columns filter_data reads, and tables with a numeric and an explicit    *)
(* column besides.                                                         *)
(***************************************************************************)
FilterColumns == {"Artist", "Track", "Release Date", "ISRC"}

NoDate == None
OnDay(d) == Date(d)   \* pd.to_datetime(datetime.date) is midnight of that day

EmptyCriteria(c) ==
  /\ c.artists = {} /\ c.tracks = {}
  /\ c.start_date = None /\ c.end_date = None
  /\ c.isrc \in {None, Str(<<>>)}

FilterDomain ==
  [c \in FilterColumns |->
     CASE c = "Artist" -> {Text(<<"X">>), Text(<<"e_acute">>), <<>>}
       [] c = "Track" -> {Text(<<"T">>), Text(<<"U">>)}
       [] c = "Release Date" -> {us_date(1)}
       [] c = "ISRC" -> {Text(<<"A","1">>), <<>>}]

AllColumns == FilterColumns \cup {"Spotify Streams", "Explicit Track"}

FullDomain ==
  [c \in AllColumns |->
     CASE c = "Artist" -> {Text(<<"X">>)}
       [] c = "Track" -> {Text(<<"T">>)}
       [] c = "Release Date" -> {us_date(1)}
       [] c = "ISRC" -> {Text(<<"A","1">>)}
       [] c = "Spotify Streams" -> {Text(<<"1",",","0">>), Text(<<"0",".","5">>), <<>>}
       [] c = "Explicit Track" -> {Text(<<"S","i","m">>), Text(<<"n","o">>)}]

FilterFiles ==
  FilesOver(FilterColumns, RowsOver(FilterColumns, FilterDomain), MaxRows)
  \cup FilesOver(AllColumns, RowsOver(AllColumns, FullDomain), MaxRows)

InitFilter == InitWith({Missing} \cup FilterFiles)

NextFilter ==
  \/ load_data_call
  \/ \E artists \in SUBSET {Text(<<"X">>), Text(<<"e_acute">>)},
        tracks \in {{}, {Text(<<"T">>)}},
        range \in {<<NoDate, NoDate>>, <<OnDay(1), OnDay(1)>>, <<OnDay(2), OnDay(2)>>},
        isrc \in {None, Str(<<>>), Str(Text(<<"A">>))} :
       filter_data_call(artists, tracks, range[1], range[2], isrc)
  \/ convert_df_to_csv_call

SpecFilter == InitFilter /\ [][NextFilter]_vars

\* C1: with an empty artist set, an empty track set, no date range and an
\* empty or null ISRC query, filter_data returns the rows of its table, in
\* the same order and with the same cells.
C1_EmptyCriteriaPassThrough ==
  (criteria.status = "ok" /\ EmptyCriteria(criteria.value)) => filtered = Ok(df.value)

\* Two different rows went through the filter with every criterion empty.
C1_Witness ==
  /\ criteria.status = "ok" /\ EmptyCriteria(criteria.value)
  /\ Len(df.value.rows) = MaxRows
  /\ df.value.rows[1] # df.value.rows[2]
  /\ filtered.status = "ok" /\ filtered.value.rows = df.value.rows

\* C2: with a non-empty artist set A, every returned row has an Artist that
\* is a member of A, whatever the other criteria; and with the other criteria
\* empty every row whose Artist is in A is returned.
C2_ArtistsSubset ==
  (criteria.status = "ok" /\ criteria.value.artists # {} /\ filtered.status = "ok") =>
    LET A == criteria.value.artists
        got == filtered.value.rows
        all == df.value.rows
    IN  /\ \A i \in 1..Len(got) : got[i]["Artist"].kind = "str" /\ got[i]["Artist"].s \in A
        /\ EmptyCriteria([criteria.value EXCEPT !.artists = {}]) =>
             got = SelectRows(all, {i \in 1..Len(all) :
                                      all[i]["Artist"].kind = "str" /\ all[i]["Artist"].s \in A})

\* Of two rows by two artists, one of them chosen, one row came back.
C2_Witness ==
  /\ criteria.status = "ok" /\ criteria.value.artists = {Text(<<"X">>)}
  /\ EmptyCriteria([criteria.value EXCEPT !.artists = {}])
  /\ Len(df.value.rows) = MaxRows
  /\ df.value.rows[1]["Artist"] = Str(Text(<<"e_acute">>))
  /\ df.value.rows[Len(df.value.rows)]["Artist"] = Str(Text(<<"X">>))
  /\ filtered.status = "ok" /\ Len(filtered.value.rows) = 1

\* The export, saved as the source file and loaded by a new process, then
\* filtered with every criterion empty.
Reloaded(bytes) == filter_data(load_data(bytes), {}, {}, None, None, Str(<<>>))

\* C8: exporting a filtered table and loading the export back through the
\* loader, then filtering with all criteria empty, yields the rows of the
\* filtered table with the same values in every column.
C8_RoundTrip ==
  csv_data.status = "ok" => Reloaded(csv_data.value) = filtered

(***************************************************************************)
(* The date range: release dates before, on and after the bounds, and      *)
(* dates that cannot be parsed.                                            *)
(***************************************************************************)
Days == {1, 2, 3}

DateDomain ==
  [c \in FilterColumns |->
     CASE c = "Artist" -> {Text(<<"X">>), <<>>}
       [] c = "Track" -> {Text(<<"T">>)}
       [] c = "Release Date" -> {us_date(d) : d \in Days} \cup {Text(<<"x">>), <<>>}
       [] c = "ISRC" -> {Text(<<"A","1">>)}]

DateFiles == FilesOver(FilterColumns, RowsOver(FilterColumns, DateDomain), MaxRows)

DateBounds == {NoDate} \cup {OnDay(d) : d \in Days}

InitDate == InitWith({Missing} \cup DateFiles)

NextDate ==
  \/ load_data_call
  \/ \E artists \in {{}, {Text(<<"X">>)}},
        start_date \in DateBounds, end_date \in DateBounds,
        isrc \in {Str(<<>>), Str(Text(<<"1">>))} :
       filter_data_call(artists, {}, start_date, end_date, isrc)

SpecDate == InitDate /\ [][NextDate]_vars

\* The rows that pass the criteria other than the date range.
PassingOthers ==
  filter_data(df.value, criteria.value.artists, criteria.value.tracks,
              None, None, criteria.value.isrc).value.rows

\* C3: with both bounds d1 and d2 supplied, filter_data returns exactly the
\* rows, among those passing the other criteria, whose Release Date r has
\* d1 <= r <= d2 (a row released on day d2 is kept, a row without a Release
\* Date is not returned); with one bound or none, the date criterion excludes
\* no row.
C3_DateRangeInclusive ==
  (criteria.status = "ok" /\ filtered.status = "ok") =>
    LET d1 == criteria.value.start_date
        d2 == criteria.value.end_date
        others == PassingOthers
        got == filtered.value.rows
    IN  IF d1 # None /\ d2 # None
          THEN /\ got = SelectRows(others,
                          {i \in 1..Len(others) :
                             /\ others[i]["Release Date"] # Null
                             /\ d1.day <= others[i]["Release Date"].day
                             /\ others[i]["Release Date"].day <= d2.day})
               /\ \A i \in 1..Len(got) : got[i]["Release Date"] # Null
               /\ \A i \in 1..Len(others) :
                    (d1.day <= d2.day /\ others[i]["Release Date"] = Date(d2.day))
                      => \E j \in 1..Len(got) : got[j] = others[i]
          ELSE got = others

\* Of a row released on the last day of the range and a row without a date,
\* the first came back and the second did not.
C3_Witness ==
  /\ criteria.status = "ok" /\ filtered.status = "ok"
  /\ criteria.value.start_date = OnDay(1) /\ criteria.value.end_date = OnDay(2)
  /\ Len(df.value.rows) = MaxRows
  /\ df.value.rows[1]["Release Date"] = Date(2)
  /\ df.value.rows[Len(df.value.rows)]["Release Date"] = Null
  /\ filtered.value.rows = <<df.value.rows[1]>>

(***************************************************************************)
(* The ISRC query: every query of at most MaxQuery characters, over        *)
(* letters, a digit and the characters '.', '(' and '['.                   *)
(***************************************************************************)
IsrcDomain ==
  [c \in FilterColumns |->
     CASE c = "Artist" -> {Text(<<"X">>), <<>>}
       [] c = "Track" -> {Text(<<"T">>)}
       [] c = "Release Date" -> {us_date(1)}
       [] c = "ISRC" -> {Text(<<"A","1">>), Text(<<"B">>), <<>>}]

\* Files whose ISRC column is text.
IsrcFiles ==
  {f \in FilesOver(FilterColumns, RowsOver(FilterColumns, IsrcDomain), MaxRows) :
     is_object_column(read_csv(f), "ISRC")}

QueryAlphabet == {ord("A"), ord("a"), ord("1"), ord("."), ord("("), ord("[")}

Queries == {None} \cup {Str(q) : q \in SeqsUpTo(QueryAlphabet, MaxQuery)}

InitIsrc == InitWith({Missing} \cup IsrcFiles)

NextIsrc ==
  \/ load_data_call
  \/ \E artists \in {{}, {Text(<<"X">>)}}, isrc \in Queries :
       filter_data_call(artists, {}, None, None, isrc)

SpecIsrc == InitIsrc /\ [][NextIsrc]_vars

\* q occurs in text as a literal substring.
Contains(text, q) ==
  \E k \in 0..(Len(text) - Len(q)) : \A i \in 1..Len(q) : text[k + i] = q[i]

\* C4: with a non-empty ISRC query q, whatever its characters, filter_data
\* does not fail and keeps a row, among those passing the other criteria, if
\* and only if its ISRC is non-null and contains q as a literal,
\* case-sensitive substring.
C4_IsrcLiteralSubstring ==
  (criteria.status = "ok" /\ criteria.value.isrc \notin {None, Str(<<>>)}) =>
    LET q == criteria.value.isrc.s
        others == filter_data(df.value, criteria.value.artists, criteria.value.tracks,
                              criteria.value.start_date, criteria.value.end_date, None).value.rows
    IN  /\ filtered.status = "ok"
        /\ filtered.value.rows =
             SelectRows(others, {i \in 1..Len(others) :
                                   /\ others[i]["ISRC"] # Null
                                   /\ Contains(others[i]["ISRC"].s, q)})

====
